---- MODULE Spec2Model ----
(***************************************************************************)
(* Option pricing engine: the Cox-Ross-Rubinstein binomial lattice of      *)
(* binomial_model.py and the Monte Carlo estimator of monte_carlo.py.      *)
(*                                                                         *)
(* Python floats are modelled as fixed-point integers with Scale units per *)
(* 1.0 and floor rounding; math.exp and math.sqrt are computed in that     *)
(* arithmetic (truncated Taylor series, integer square root).  Each        *)
(* function is unrolled into one action per statement group so that the    *)
(* order of validation, derivation, calibration and induction is visible.  *)
(***************************************************************************)
EXTENDS Integers, Sequences, FiniteSets, TLC

\* ------------------------------------------------------------------------
\* Bounds of the model
\* ------------------------------------------------------------------------
MaxSteps == 3
MaxPaths == 2
MaxMCSteps == 2

\* ------------------------------------------------------------------------
\* Fixed-point arithmetic standing in for double precision
\* ------------------------------------------------------------------------
Scale == 1000
ExpTerms == 8

Max(a, b) == IF a >= b THEN a ELSE b
Min(a, b) == IF a <= b THEN a ELSE b

FMul(a, b) == (a * b) \div Scale

FDiv(a, b) == IF b > 0 THEN (a * Scale) \div b ELSE ((0 - a) * Scale) \div (0 - b)

RECURSIVE ExpSeries(_, _, _)
ExpSeries(x, k, term) ==
    IF k > ExpTerms \/ term = 0 THEN 0
    ELSE term + ExpSeries(x, k + 1, (term * x) \div (k * Scale))

\* math.exp: exp(0) is exactly 1.0, exp(-x) = 1/exp(x)
FExp(x) ==
    IF x >= 0 THEN ExpSeries(x, 1, Scale)
    ELSE (Scale * Scale) \div ExpSeries(0 - x, 1, Scale)

RECURSIVE SqrtBetween(_, _, _)
SqrtBetween(x, lo, hi) ==
    IF lo >= hi THEN lo
    ELSE LET mid == (lo + hi + 1) \div 2
         IN  IF mid * mid <= x * Scale
             THEN SqrtBetween(x, mid, hi)
             ELSE SqrtBetween(x, lo, mid - 1)

\* math.sqrt: the largest fixed-point r with r*r <= x, found by bisection
FSqrt(x) == SqrtBetween(x, 0, x + Scale)

RECURSIVE FPow(_, _)
FPow(b, n) == IF n <= 0 THEN Scale ELSE FMul(FPow(b, n - 1), b)

\* ========================================================================
\* binomial_model.py
\* ========================================================================
VARIABLES pc, params, dt, up, down, growth, prob, disc, values, rounds,
          derivations, nodeEvals, probUsed, outcome, result

binVars == <<pc, params, dt, up, down, growth, prob, disc, values, rounds,
             derivations, nodeEvals, probUsed, outcome, result>>

\* monte_carlo.py
VARIABLES mcpc, mcParams, payoff, rng, paths, writes, shocks, step, payoffs,
          evalOrder, discount_factor, mcOutcome, mcResult, earlier

mcVars == <<mcpc, mcParams, payoff, rng, paths, writes, shocks, step, payoffs,
            evalOrder, discount_factor, mcOutcome, mcResult, earlier>>

vars == <<binVars, mcVars>>

\* Parameter values offered to the pricing call (fixed-point where float)
SpotSpace == {0, 50 * Scale, 100 * Scale}
StrikeSpace == {0, 100 * Scale}
RateSpace == {0 - 500, 0, 50, 500}
TimeSpace == {0, Scale}
VolatilitySpace == {0 - 100, 0, 200, 400}
StepsSpace == 0..MaxSteps
DividendSpace == {0, 100}
OptionTypeSpace == {"call", "put", "straddle"}
ExerciseSpace == {"european", "american", "bermudan"}

BinomialParameters ==
    [spot : SpotSpace, strike : StrikeSpace, rate : RateSpace, time : TimeSpace,
     volatility : VolatilitySpace, steps : StepsSpace, dividend_yield : DividendSpace,
     option_type : OptionTypeSpace, exercise : ExerciseSpace]

\* validate without the maturity check
ValidateRaisesNoTime(p) ==
    \/ p.steps <= 0
    \/ p.spot <= 0 \/ p.strike <= 0
    \/ p.volatility < 0
    \/ p.option_type \notin {"call", "put"}
    \/ p.exercise \notin {"european", "american"}

\* BinomialParameters.validate: TRUE when one of the checks raises
ValidateRaises(p) ==
    \/ p.steps <= 0
    \/ p.spot <= 0 \/ p.strike <= 0
    \/ p.volatility < 0
    \/ p.time <= 0
    \/ p.option_type \notin {"call", "put"}
    \/ p.exercise \notin {"european", "american"}

\* _payoff(option_type)(price, strike)
Payoff(option_type, price, strike) ==
    IF option_type = "call" THEN Max(price - strike, 0) ELSE Max(strike - price, 0)

\* line 78: float division raises ZeroDivisionError when steps = 0
DtDivides(p) == p.steps # 0

\* lines 78-81
DtOf(p) == FDiv(p.time, p.steps * Scale)
UpOf(p) == FExp(FMul(p.volatility, FSqrt(DtOf(p))))
DownOf(p) == FDiv(Scale, UpOf(p))
GrowthOf(p) == FExp(FMul(p.rate - p.dividend_yield, DtOf(p)))

\* line 82: float division raises ZeroDivisionError when up = down
ProbDivides(p) == UpOf(p) - DownOf(p) # 0
ProbOf(p) == FDiv(GrowthOf(p) - DownOf(p), UpOf(p) - DownOf(p))

\* the range check without its lower end
ProbInRangeUpperOnly(q) == q <= Scale

\* line 84: 0 <= prob <= 1
ProbInRange(q) == 0 <= q /\ q <= Scale

DiscOf(p) == FExp(0 - FMul(p.rate, DtOf(p)))

\* lattice price of node j at level n
NodePrice(p, u, d, j, n) == FMul(FMul(p.spot, FPow(u, j)), FPow(d, n - j))

\* lines 91-92
TerminalValues(p, u, d) ==
    [i \in 1..(p.steps + 1) |->
        Payoff(p.option_type, NodePrice(p, u, d, i - 1, p.steps), p.strike)]

\* zero-based list read: InRange tells whether the index exists (IndexError otherwise)
InRange(vals, j) == 0 <= j /\ j < Len(vals)
At(vals, j) == IF InRange(vals, j) THEN vals[j + 1] ELSE 0

Continuation(vals, j, q, dsc) == FMul(dsc, FMul(q, At(vals, j + 1)) + FMul(Scale - q, At(vals, j)))

\* the european comprehension running one index too far
EuropeanRangeWhole(vals) == 0..(Len(vals) - 1)

\* line 96: range(len(values) - 1)
EuropeanRange(vals) == 0..(Len(vals) - 2)

EuropeanStep(vals, q, dsc) ==
    [i \in 1..Cardinality(EuropeanRange(vals)) |-> Continuation(vals, i - 1, q, dsc)]

\* line 102: range(step + 1)
AmericanRange(stp) == 0..stp

\* early exercise decided the wrong way round, and not decided at all
KeepMin(continuation, exercise_val) == Min(continuation, exercise_val)
KeepContinuation(continuation, exercise_val) == continuation

\* line 106
Keep(continuation, exercise_val) == Max(continuation, exercise_val)

AmericanStep(vals, p, u, d, q, dsc, stp) ==
    [i \in 1..Cardinality(AmericanRange(stp)) |->
        Keep(Continuation(vals, i - 1, q, dsc),
             Payoff(p.option_type, NodePrice(p, u, d, i - 1, stp), p.strike))]

\* indices read by one round: values[j] and values[j + 1]
ReadsOf(range) == UNION {{j, j + 1} : j \in range}
ReadsExist(vals, range) == \A j \in ReadsOf(range) : InRange(vals, j)

\* step of the american loop in round number r (0-based): steps-1 down to 0
StepOf(p, r) == p.steps - 1 - r

\* the whole function on parameters that validate and calibrate, as a value
RECURSIVE Induct(_, _, _)
Induct(p, vals, r) ==
    IF r >= p.steps THEN vals
    ELSE IF p.exercise = "european"
         THEN Induct(p, EuropeanStep(vals, ProbOf(p), DiscOf(p)), r + 1)
         ELSE Induct(p, AmericanStep(vals, p, UpOf(p), DownOf(p), ProbOf(p), DiscOf(p),
                                     StepOf(p, r)), r + 1)

binomial_option_price(p) == At(Induct(p, TerminalValues(p, UpOf(p), DownOf(p)), 0), 0)

\* the caller invokes binomial_option_price(params); calls share no state,
\* so one behaviour follows one call
Call ==
    /\ UNCHANGED mcVars
    /\ pc = "idle"
    /\ pc' = "validate"
    /\ UNCHANGED <<params, dt, up, down, growth, prob, disc, values, rounds,
                   derivations, nodeEvals, probUsed, outcome, result>>

\* line 76
Validate ==
    /\ UNCHANGED mcVars
    /\ pc = "validate"
    /\ IF ValidateRaises(params)
       THEN pc' = "done" /\ outcome' = "ValidationError"
       ELSE pc' = "derive" /\ outcome' = outcome
    /\ UNCHANGED <<params, dt, up, down, growth, prob, disc, values, rounds,
                   derivations, nodeEvals, probUsed, result>>

\* lines 78-82
Derive ==
    /\ UNCHANGED mcVars
    /\ pc = "derive"
    /\ IF ~DtDivides(params)
       THEN /\ pc' = "done" /\ outcome' = "ZeroDivisionError"
            /\ UNCHANGED <<dt, up, down, growth, prob>>
       ELSE /\ dt' = DtOf(params)
            /\ up' = UpOf(params)
            /\ down' = DownOf(params)
            /\ growth' = GrowthOf(params)
            /\ IF ProbDivides(params)
               THEN prob' = ProbOf(params) /\ pc' = "calibrate" /\ outcome' = outcome
               ELSE prob' = prob /\ pc' = "done" /\ outcome' = "ZeroDivisionError"
    /\ derivations' = derivations + 1
    /\ UNCHANGED <<params, disc, values, rounds, nodeEvals, probUsed, result>>

\* lines 84-85
Calibrate ==
    /\ UNCHANGED mcVars
    /\ pc = "calibrate"
    /\ IF ProbInRange(prob)
       THEN pc' = "terminal" /\ outcome' = outcome
       ELSE pc' = "done" /\ outcome' = "CalibrationError"
    /\ UNCHANGED <<params, dt, up, down, growth, prob, disc, values, rounds,
                   derivations, nodeEvals, probUsed, result>>

\* lines 87-92
Terminal ==
    /\ UNCHANGED mcVars
    /\ pc = "terminal"
    /\ disc' = FExp(0 - FMul(params.rate, dt))
    /\ values' = TerminalValues(params, up, down)
    /\ nodeEvals' = nodeEvals + params.steps + 1
    /\ pc' = "induct"
    /\ UNCHANGED <<params, dt, up, down, growth, prob, rounds, derivations,
                   probUsed, outcome, result>>

\* lines 95-96, one pass of the european loop
EuropeanRound ==
    /\ UNCHANGED mcVars
    /\ pc = "induct"
    /\ params.exercise = "european"
    /\ rounds < params.steps
    /\ IF ReadsExist(values, EuropeanRange(values))
       THEN /\ values' = EuropeanStep(values, prob, disc)
            /\ nodeEvals' = nodeEvals + Len(values')
            /\ rounds' = rounds + 1
            /\ probUsed' = probUsed \cup {prob}
            /\ UNCHANGED <<pc, outcome>>
       ELSE /\ pc' = "done" /\ outcome' = "IndexError"
            /\ UNCHANGED <<values, nodeEvals, rounds, probUsed>>
    /\ UNCHANGED <<params, dt, up, down, growth, prob, disc, derivations, result>>

\* lines 100-107, one pass of the american loop
AmericanRound ==
    /\ UNCHANGED mcVars
    /\ pc = "induct"
    /\ params.exercise # "european"
    /\ rounds < params.steps
    /\ IF ReadsExist(values, AmericanRange(StepOf(params, rounds)))
       THEN /\ values' = AmericanStep(values, params, up, down, prob, disc,
                                      StepOf(params, rounds))
            /\ nodeEvals' = nodeEvals + Len(values')
            /\ rounds' = rounds + 1
            /\ probUsed' = probUsed \cup {prob}
            /\ UNCHANGED <<pc, outcome>>
       ELSE /\ pc' = "done" /\ outcome' = "IndexError"
            /\ UNCHANGED <<values, nodeEvals, rounds, probUsed>>
    /\ UNCHANGED <<params, dt, up, down, growth, prob, disc, derivations, result>>

\* lines 97 and 109: return values[0]
Return ==
    /\ UNCHANGED mcVars
    /\ pc = "induct"
    /\ rounds >= params.steps
    /\ pc' = "done"
    /\ IF InRange(values, 0)
       THEN result' = At(values, 0) /\ outcome' = "price"
       ELSE result' = result /\ outcome' = "IndexError"
    /\ UNCHANGED <<params, dt, up, down, growth, prob, disc, values, rounds,
                   derivations, nodeEvals, probUsed>>

\* ========================================================================
\* monte_carlo.py
\* ========================================================================
None == 0 - 1

\* payoff functions handed to monte_carlo_price: the first four are built by
\* expression_payoff from the expression shown, the others are plain callables
ExprTerminalCall == "np.maximum(path[-1] - 100, 0)"
ExprMeanCall == "np.maximum(np.mean(path) - 100, 0)"
ExprGuarded == "[path[-1]][int(path[-1] < path[0])]"
ExprWholePath == "path"
FnTerminal == "lambda paths: paths[:, -1]"
FnFirstRow == "lambda paths: paths[0]"
FnEmpty == "lambda paths: []"

Expressions == {ExprTerminalCall, ExprMeanCall, ExprGuarded, ExprWholePath}
PayoffFunctions == Expressions \cup {FnTerminal, FnFirstRow, FnEmpty}

MonteCarloParameters ==
    [spot : {0, 100 * Scale}, rate : {50}, time : {Scale},
     volatility : {0 - 100, 200}, paths : 0..MaxPaths, steps : 0..MaxMCSteps,
     dividend_yield : {0}, seed : {None, 1, 2}]

\* MonteCarloParameters.validate: TRUE when one of the checks raises
MCValidateRaises(p) ==
    \/ p.spot <= 0
    \/ p.volatility < 0
    \/ p.time <= 0
    \/ p.paths <= 0
    \/ p.steps <= 0

\* numpy Generator: a bit generator state, advanced once per normal draw
RngMod == 4
Entropy == 0..(RngMod - 1)
SeedSequence(seed) == (7 * seed + 3) % RngMod

\* a generator that never looks at the seed
FromEntropy(seed, entropy) == entropy

\* line 58: default_rng(seed); seed None takes fresh entropy from the system
default_rng(seed, entropy) == IF seed = None THEN entropy ELSE SeedSequence(seed)

RECURSIVE Advance(_, _)
Advance(state, n) == IF n <= 0 THEN state ELSE Advance((5 * state + 3) % RngMod, n - 1)

\* one standard normal draw read off a generator state
Normal(state) == ((state % 3) - 1) * Scale

\* lines 59-61
MCDt(p) == FDiv(p.time, p.steps * Scale)
Drift(p) == FMul(p.rate - p.dividend_yield - FMul(Scale \div 2, FPow(p.volatility, 2)), MCDt(p))
Diffusion(p) == FMul(p.volatility, FSqrt(MCDt(p)))

\* line 67: rng.normal(size=(paths, steps)), filled row by row
DrawShocks(state, p) ==
    [i \in 1..p.paths |-> [k \in 1..p.steps |-> Normal(Advance(state, (i - 1) * p.steps + k))]]

\* line 69, one entry
Evolve(prev, p, shock) == FMul(prev, FExp(Drift(p) + FMul(Diffusion(p), shock)))

\* the loop of line 68 stopping one column early
LastStepShort(p) == p.steps - 1

\* line 68: range(1, steps + 1) ends at steps
LastStep(p) == p.steps

RECURSIVE SeqSum(_)
SeqSum(sq) == IF sq = <<>> THEN 0 ELSE Head(sq) + SeqSum(Tail(sq))

Last(path) == path[Len(path)]

\* eval(expression, {"np": np}, {"path": path}) raises
EvalRaises(expression, path) == expression = ExprGuarded /\ Last(path) < path[1]

\* eval(expression, {"np": np}, {"path": path}): a scalar or an array
Eval(expression, path) ==
    IF expression = ExprTerminalCall
    THEN [scalar |-> TRUE, v |-> <<Max(Last(path) - 100 * Scale, 0)>>]
    ELSE IF expression = ExprMeanCall
    THEN [scalar |-> TRUE, v |-> <<Max(SeqSum(path) \div Len(path) - 100 * Scale, 0)>>]
    ELSE IF expression = ExprGuarded
    THEN [scalar |-> TRUE, v |-> <<Last(path)>>]
    ELSE [scalar |-> FALSE, v |-> path]

\* list(payoff(paths)) for the plain callables
Apply(fn, matrix) ==
    IF fn = FnTerminal
    THEN [i \in 1..Len(matrix) |-> [scalar |-> TRUE, v |-> <<Last(matrix[i])>>]]
    ELSE IF fn = FnFirstRow
    THEN [k \in 1..Len(matrix[1]) |-> [scalar |-> TRUE, v |-> <<matrix[1][k]>>]]
    ELSE <<>>

\* np.asarray(items, dtype=float).shape
Shape(items) ==
    IF \A n \in 1..Len(items) : items[n].scalar
    THEN <<Len(items)>>
    ELSE <<Len(items), Len(items[1].v)>>

\* a shape test that only asks for a one-dimensional, non-empty array
ShapeNonEmpty(items, p) == Len(Shape(items)) = 1 /\ Len(items) > 0

\* line 81: payoffs.shape == (params.paths,)
ShapeMatches(items, p) == Shape(items) = <<p.paths>>

\* np.mean over a one-dimensional array
Mean(items) == SeqSum([n \in 1..Len(items) |-> items[n].v[1]]) \div Len(items)

\* the generator of line 100 stepping over a row
NextPathSkipping(i) == i + 2

\* line 100: for path in paths
NextPath(i) == i + 1

DefaultBinomial ==
    [spot |-> 100 * Scale, strike |-> 100 * Scale, rate |-> 50, time |-> Scale,
     volatility |-> 200, steps |-> 1, dividend_yield |-> 0,
     option_type |-> "call", exercise |-> "european"]

DefaultMonteCarlo ==
    [spot |-> 100 * Scale, rate |-> 50, time |-> Scale, volatility |-> 200,
     paths |-> 1, steps |-> 1, dividend_yield |-> 0, seed |-> None]

NoCall == [made |-> FALSE, params |-> DefaultMonteCarlo, payoff |-> FnEmpty, price |-> 0]

\* a caller has built a parameter record; nothing is computed yet,
\* and monte_carlo_price is not in use
BinInit ==
    /\ pc = "idle"
    /\ params \in BinomialParameters
    /\ dt = 0 /\ up = 0 /\ down = 0 /\ growth = 0 /\ prob = 0 /\ disc = 0
    /\ values = <<>>
    /\ rounds = 0
    /\ derivations = 0
    /\ nodeEvals = 0
    /\ probUsed = {}
    /\ outcome = "none"
    /\ result = 0
    /\ mcpc = "idle"
    /\ mcParams = DefaultMonteCarlo
    /\ payoff = FnEmpty
    /\ rng = 0
    /\ paths = <<>>
    /\ writes = <<>>
    /\ shocks = <<>>
    /\ step = 0
    /\ payoffs = <<>>
    /\ evalOrder = <<>>
    /\ discount_factor = 0
    /\ mcOutcome = "none"
    /\ mcResult = 0
    /\ earlier = NoCall

\* no call of monte_carlo_price has been made; binomial_option_price is not
\* in use
MCInit ==
    /\ pc = "idle"
    /\ params = DefaultBinomial
    /\ dt = 0 /\ up = 0 /\ down = 0 /\ growth = 0 /\ prob = 0 /\ disc = 0
    /\ values = <<>>
    /\ rounds = 0
    /\ derivations = 0
    /\ nodeEvals = 0
    /\ probUsed = {}
    /\ outcome = "none"
    /\ result = 0
    /\ mcpc = "idle"
    /\ mcParams = DefaultMonteCarlo
    /\ payoff = FnEmpty
    /\ rng = 0
    /\ paths = <<>>
    /\ writes = <<>>
    /\ shocks = <<>>
    /\ step = 0
    /\ payoffs = <<>>
    /\ evalOrder = <<>>
    /\ discount_factor = 0
    /\ mcOutcome = "none"
    /\ mcResult = 0
    /\ earlier = NoCall

\* a caller invokes monte_carlo_price(params, payoff)
MCCall ==
    /\ UNCHANGED binVars
    /\ mcpc = "idle"
    /\ \E p \in MonteCarloParameters : mcParams' = p
    /\ \E f \in PayoffFunctions : payoff' = f
    /\ mcpc' = "validate"
    /\ UNCHANGED <<rng, paths, writes, shocks, step, payoffs, evalOrder,
                   discount_factor, mcOutcome, mcResult, earlier>>

\* line 57
MCValidate ==
    /\ UNCHANGED binVars
    /\ mcpc = "validate"
    /\ IF MCValidateRaises(mcParams)
       THEN mcpc' = "done" /\ mcOutcome' = "ValidationError"
       ELSE mcpc' = "simulate" /\ mcOutcome' = mcOutcome
    /\ UNCHANGED <<mcParams, payoff, rng, paths, writes, shocks, step, payoffs,
                   evalOrder, discount_factor, mcResult, earlier>>

\* what np.empty may hand back
Garbage == {0 - 7, 31337}

\* lines 58-67: seed the generator, allocate, write column 0, draw the shocks
Simulate ==
    /\ UNCHANGED binVars
    /\ mcpc = "simulate"
    /\ \E entropy \in Entropy, g \in Garbage :
        LET state == default_rng(mcParams.seed, entropy) IN
        /\ shocks' = DrawShocks(state, mcParams)
        /\ rng' = Advance(state, mcParams.paths * mcParams.steps)
        /\ paths' = [i \in 1..mcParams.paths |->
                        [k \in 1..(mcParams.steps + 1) |->
                            IF k = 1 THEN mcParams.spot ELSE g]]
    /\ writes' = [i \in 1..mcParams.paths |->
                    [k \in 1..(mcParams.steps + 1) |-> IF k = 1 THEN 1 ELSE 0]]
    /\ step' = 1
    /\ mcpc' = "fill"
    /\ UNCHANGED <<mcParams, payoff, payoffs, evalOrder, discount_factor,
                   mcOutcome, mcResult, earlier>>

\* lines 68-69: one pass of the loop writes column `step` of every row
FillColumn ==
    /\ UNCHANGED binVars
    /\ mcpc = "fill"
    /\ step <= LastStep(mcParams)
    /\ paths' = [i \in 1..Len(paths) |->
                    [paths[i] EXCEPT ![step + 1] =
                        Evolve(paths[i][step], mcParams, shocks[i][step])]]
    /\ writes' = [i \in 1..Len(writes) |->
                    [writes[i] EXCEPT ![step + 1] = @ + 1]]
    /\ step' = step + 1
    /\ UNCHANGED <<mcpc, mcParams, payoff, rng, shocks, payoffs, evalOrder,
                   discount_factor, mcOutcome, mcResult, earlier>>

\* lines 71 and 79: simulate_paths returns the matrix
SimulateReturn ==
    /\ UNCHANGED binVars
    /\ mcpc = "fill"
    /\ step > LastStep(mcParams)
    /\ mcpc' = "payoff"
    /\ step' = 1
    /\ UNCHANGED <<mcParams, payoff, rng, paths, writes, shocks, payoffs,
                   evalOrder, discount_factor, mcOutcome, mcResult, earlier>>

\* lines 100-101 under list() of line 80: the generator yields for one path
EvalPath ==
    /\ UNCHANGED binVars
    /\ mcpc = "payoff"
    /\ payoff \in Expressions
    /\ step <= Len(paths)
    /\ evalOrder' = Append(evalOrder, step)
    /\ IF EvalRaises(payoff, paths[step])
       THEN /\ mcpc' = "done" /\ mcOutcome' = "EvaluationError"
            /\ UNCHANGED <<payoffs, step>>
       ELSE /\ payoffs' = Append(payoffs, Eval(payoff, paths[step]))
            /\ step' = NextPath(step)
            /\ UNCHANGED <<mcpc, mcOutcome>>
    /\ UNCHANGED <<mcParams, payoff, rng, paths, writes, shocks,
                   discount_factor, mcResult, earlier>>

\* line 80: the generator is exhausted, the list is complete
EvalDone ==
    /\ UNCHANGED binVars
    /\ mcpc = "payoff"
    /\ payoff \in Expressions
    /\ step > Len(paths)
    /\ mcpc' = "shape"
    /\ UNCHANGED <<mcParams, payoff, rng, paths, writes, shocks, step, payoffs,
                   evalOrder, discount_factor, mcOutcome, mcResult, earlier>>

\* line 80 for a plain callable
ApplyPayoff ==
    /\ UNCHANGED binVars
    /\ mcpc = "payoff"
    /\ payoff \notin Expressions
    /\ payoffs' = Apply(payoff, paths)
    /\ mcpc' = "shape"
    /\ UNCHANGED <<mcParams, payoff, rng, paths, writes, shocks, step,
                   evalOrder, discount_factor, mcOutcome, mcResult, earlier>>

\* lines 81-82
CheckShape ==
    /\ UNCHANGED binVars
    /\ mcpc = "shape"
    /\ IF ShapeMatches(payoffs, mcParams)
       THEN mcpc' = "average" /\ mcOutcome' = mcOutcome
       ELSE mcpc' = "done" /\ mcOutcome' = "PayoffShapeError"
    /\ UNCHANGED <<mcParams, payoff, rng, paths, writes, shocks, step, payoffs,
                   evalOrder, discount_factor, mcResult, earlier>>

\* lines 84-85
MCReturn ==
    /\ UNCHANGED binVars
    /\ mcpc = "average"
    /\ discount_factor' = FExp(0 - FMul(mcParams.rate, mcParams.time))
    /\ mcResult' = FMul(discount_factor', Mean(payoffs))
    /\ mcOutcome' = "price"
    /\ mcpc' = "done"
    /\ UNCHANGED <<mcParams, payoff, rng, paths, writes, shocks, step, payoffs,
                   evalOrder, earlier>>

\* the call is over and its frame is dropped; an observer may note the priced
\* call to compare a later one with it
Forget ==
    /\ UNCHANGED binVars
    /\ mcpc = "done"
    /\ mcpc' = "idle"
    /\ \/ earlier' = earlier
       \/ /\ mcOutcome = "price"
          /\ mcParams.seed # None
          /\ earlier' = [made |-> TRUE, params |-> mcParams, payoff |-> payoff,
                         price |-> mcResult]
    /\ mcParams' = DefaultMonteCarlo
    /\ payoff' = FnEmpty
    /\ rng' = 0
    /\ paths' = <<>>
    /\ writes' = <<>>
    /\ shocks' = <<>>
    /\ step' = 0
    /\ payoffs' = <<>>
    /\ evalOrder' = <<>>
    /\ discount_factor' = 0
    /\ mcOutcome' = "none"
    /\ mcResult' = 0

BinNext ==
    \/ Call
    \/ Validate
    \/ Derive
    \/ Calibrate
    \/ Terminal
    \/ EuropeanRound
    \/ AmericanRound
    \/ Return


MCNext ==
    \/ MCCall
    \/ MCValidate
    \/ Simulate
    \/ FillColumn
    \/ SimulateReturn
    \/ EvalPath
    \/ EvalDone
    \/ ApplyPayoff
    \/ CheckShape
    \/ MCReturn
    \/ Forget

\* one call of binomial_option_price
SpecBin == BinInit /\ [][BinNext]_vars

\* any number of calls of monte_carlo_price, one after another
SpecMC == MCInit /\ [][MCNext]_vars

\* ------------------------------------------------------------------------
\* Properties of binomial_option_price
\* ------------------------------------------------------------------------

\* the inputs the contract rejects, as the contract lists them
InvalidInput(p) ==
    \/ p.steps <= 0
    \/ p.spot <= 0
    \/ p.strike <= 0
    \/ p.volatility < 0
    \/ p.time <= 0
    \/ ~(p.option_type = "call" \/ p.option_type = "put")
    \/ ~(p.exercise = "european" \/ p.exercise = "american")

NothingComputed ==
    /\ derivations = 0 /\ nodeEvals = 0 /\ rounds = 0
    /\ dt = 0 /\ up = 0 /\ down = 0 /\ growth = 0 /\ prob = 0 /\ disc = 0
    /\ values = <<>> /\ probUsed = {} /\ result = 0

\* C1: on every input with steps <= 0, spot <= 0, strike <= 0, volatility < 0,
\* time <= 0 or an unknown option_type / exercise, the call ends in a
\* validation error with no dt/up/down/prob derived, no lattice value
\* computed and no price returned.
C1_ValidationBeforeComputation ==
    (InvalidInput(params) /\ pc \notin {"idle", "validate"})
        => (pc = "done" /\ outcome = "ValidationError" /\ NothingComputed)

C1_Witness ==
    /\ pc = "done" /\ outcome = "ValidationError"
    /\ params.time <= 0 /\ params.steps > 0 /\ params.spot > 0 /\ params.strike > 0
    /\ params.volatility > 0 /\ params.option_type = "put" /\ params.exercise = "american"

\* C2: once validation has passed, a derived prob outside [0,1] ends the call
\* in a calibration error before any terminal payoff or induction round, and
\* whenever a price is returned every round used the unmodified derived prob,
\* which lies in [0,1].
C2_CalibrationBeforeInduction ==
    /\ (pc \in {"terminal", "induct", "done"} /\ outcome # "ValidationError"
            /\ (prob < 0 \/ prob > Scale))
        => (pc = "done" /\ outcome = "CalibrationError" /\ nodeEvals = 0
               /\ values = <<>> /\ rounds = 0 /\ probUsed = {})
    /\ outcome = "price"
        => (/\ probUsed = {FDiv(growth - down, up - down)}
            /\ prob = FDiv(growth - down, up - down)
            /\ 0 <= prob /\ prob <= Scale)

C2_Witness ==
    pc = "done" /\ outcome = "CalibrationError" /\ prob < 0 /\ nodeEvals = 0

C2_WitnessAbove ==
    pc = "done" /\ outcome = "CalibrationError" /\ prob > Scale /\ nodeEvals = 0

\* C3: the outcome of a call is a price, a validation error or a calibration
\* error and nothing else, in particular for volatility = 0.
C3_ThreeOutcomes ==
    pc = "done" => outcome \in {"price", "ValidationError", "CalibrationError"}

C3_ZeroVolatilityEscapes ==
    pc = "done" /\ ~InvalidInput(params) /\ params.volatility = 0
        /\ outcome = "ZeroDivisionError"

\* the same parameters with the other exercise style
OtherStyle(p) ==
    [p EXCEPT !.exercise = IF p.exercise = "american" THEN "european" ELSE "american"]

\* C4: for parameters that differ only in exercise style and are both priced,
\* the american price is at least the european price, for calls and puts.
C4_AmericanAtLeastEuropean ==
    (pc = "done" /\ outcome = "price")
        => /\ params.exercise = "american"
                => result >= binomial_option_price(OtherStyle(params))
           /\ params.exercise = "european"
                => result <= binomial_option_price(OtherStyle(params))

C4_Witness ==
    /\ pc = "done" /\ outcome = "price"
    /\ params.exercise = "american" /\ params.option_type = "put"
    /\ result > binomial_option_price(OtherStyle(params))

\* C8: in both styles the induction starts from steps + 1 values, runs exactly
\* steps rounds each shortening the vector by one, never reads an index that
\* does not exist, and ends with one value, which is the returned price.
C8_InductionShape ==
    /\ pc = "induct"
        => (Len(values) = params.steps + 1 - rounds /\ rounds <= params.steps)
    /\ outcome # "IndexError"
    /\ (pc = "done" /\ outcome = "price")
        => (rounds = params.steps /\ Len(values) = 1 /\ result = values[1])

C8_Witness ==
    /\ pc = "done" /\ outcome = "price"
    /\ params.steps = MaxSteps /\ rounds = MaxSteps /\ Len(values) = 1
    /\ params.exercise = "european"

\* exercise value of node j at level n, from the claim's formula
ExerciseAt(j, n) ==
    Payoff(params.option_type,
           FMul(FMul(params.spot, FPow(up, j)), FPow(down, n - j)), params.strike)

\* C9 (state part): in american induction every node value of every level is
\* at least the node's immediate-exercise payoff, and the returned price is
\* at least payoff(spot, strike).
C9_ValuesCoverExercise ==
    /\ (pc = "induct" /\ params.exercise = "american")
        => \A j \in 0..(params.steps - rounds) :
               At(values, j) >= ExerciseAt(j, params.steps - rounds)
    /\ (pc = "done" /\ outcome = "price" /\ params.exercise = "american")
        => result >= Payoff(params.option_type, params.spot, params.strike)

\* C9 (step part): each american round keeps max(continuation, exercise) at
\* every node j in 0..step, for step = steps-1 down to 0.
C9_RoundKeepsMax ==
    (pc = "induct" /\ params.exercise = "american" /\ rounds' = rounds + 1)
        => /\ Len(values') = params.steps - rounds
           /\ \A j \in 0..(params.steps - 1 - rounds) :
                 At(values', j) =
                     Max(FMul(disc, FMul(prob, At(values, j + 1))
                                      + FMul(Scale - prob, At(values, j))),
                         ExerciseAt(j, params.steps - 1 - rounds))

\* C9: the value kept at every american node is max(continuation, exercise),
\* so node values dominate exercise values and the price dominates
\* payoff(spot, strike).
C9_EarlyExercise == [][C9_RoundKeepsMax]_vars /\ []C9_ValuesCoverExercise

C9_Witness ==
    /\ pc = "done" /\ outcome = "price" /\ params.exercise = "american"
    /\ params.option_type = "put" /\ params.steps >= 2
    /\ result = Payoff(params.option_type, params.spot, params.strike)
    /\ result > 0

\* ------------------------------------------------------------------------
\* Properties of simulate_paths and monte_carlo_price
\* ------------------------------------------------------------------------

\* the payoff function has been applied to the whole matrix without raising
PayoffApplied ==
    \/ mcpc \in {"shape", "average"}
    \/ mcpc = "done" /\ mcOutcome \in {"price", "PayoffShapeError"}

AllScalar(items) == \A n \in 1..Len(items) : items[n].scalar

\* C5: a payoff that yields a number of values other than params.paths ends
\* the call in a payoff-shape error with no discount applied and no average
\* returned; a payoff that yields exactly params.paths scalars is priced at
\* discount * mean(payoffs).
C5_PayoffShape ==
    /\ (mcpc = "average" \/ mcOutcome = "price") => Len(payoffs) = mcParams.paths
    /\ (mcpc = "done" /\ PayoffApplied /\ Len(payoffs) # mcParams.paths)
        => (mcOutcome = "PayoffShapeError" /\ discount_factor = 0 /\ mcResult = 0)
    /\ (mcpc = "done" /\ PayoffApplied /\ Len(payoffs) = mcParams.paths
            /\ AllScalar(payoffs))
        => (/\ mcOutcome = "price"
            /\ mcResult = FMul(FExp(0 - FMul(mcParams.rate, mcParams.time)),
                               SeqSum([n \in 1..Len(payoffs) |-> payoffs[n].v[1]])
                                   \div mcParams.paths))

C5_Witness ==
    /\ mcpc = "done" /\ mcOutcome = "PayoffShapeError"
    /\ Len(payoffs) > mcParams.paths /\ AllScalar(payoffs)
    /\ discount_factor = 0

C5_WitnessPriced ==
    /\ mcpc = "done" /\ mcOutcome = "price" /\ payoff = FnFirstRow
    /\ Len(payoffs) = mcParams.paths /\ mcResult > 0

\* simulate_paths has returned its matrix
Simulated ==
    \/ mcpc \in {"payoff", "shape", "average"}
    \/ mcpc = "done" /\ mcOutcome # "ValidationError"

\* C6: for validated parameters the returned matrix has params.paths rows and
\* params.steps + 1 columns, column 0 holds spot, and every later entry was
\* written exactly once, from the entry to its left in the same row.
C6_PathMatrix ==
    Simulated
        => LET drift == Drift(mcParams)
               diffusion == Diffusion(mcParams)
           IN
           /\ Len(paths) = mcParams.paths
           /\ \A i \in 1..Len(paths) :
                /\ Len(paths[i]) = mcParams.steps + 1
                /\ paths[i][1] = mcParams.spot
                /\ \A k \in 1..Len(paths[i]) : writes[i][k] = 1
                /\ \A k \in 1..mcParams.steps :
                      paths[i][k + 1] =
                          FMul(paths[i][k],
                               FExp(drift + FMul(diffusion, shocks[i][k])))

C6_Witness ==
    /\ mcpc = "payoff"
    /\ mcParams.paths = MaxPaths /\ mcParams.steps = MaxMCSteps
    /\ Len(paths) = MaxPaths
    /\ paths[1][MaxMCSteps + 1] # paths[MaxPaths][MaxMCSteps + 1]

\* the call in progress repeats an earlier priced call: same parameters, same
\* integer seed, same payoff function
RepeatsEarlier ==
    /\ earlier.made
    /\ mcParams.seed # None
    /\ earlier.params = mcParams
    /\ earlier.payoff = payoff

\* C7: two calls with identical parameters, the same integer seed and the same
\* payoff return the same price, whatever calls were made before or between.
C7_SeededReproducible ==
    (mcpc = "done" /\ mcOutcome = "price" /\ RepeatsEarlier)
        => mcResult = earlier.price

C7_Witness ==
    /\ mcpc = "done" /\ mcOutcome = "price" /\ RepeatsEarlier
    /\ mcResult = earlier.price /\ mcResult > 0
    /\ shocks[1][1] # 0

Upto(n) == [i \in 1..n |-> i]

\* C10: with a payoff built by expression_payoff the expression is evaluated
\* once for each path in path order, none skipped or retried, and an
\* evaluation that raises ends the call with that error and no price.
C10_OncePerPath ==
    payoff \in Expressions
        => /\ evalOrder = Upto(Len(evalOrder))
           /\ PayoffApplied => evalOrder = Upto(mcParams.paths)
           /\ mcOutcome = "price"
                => \A i \in 1..Len(paths) : ~EvalRaises(payoff, paths[i])
           /\ (mcpc = "done" /\ mcOutcome = "EvaluationError")
                => (/\ mcResult = 0 /\ discount_factor = 0
                    /\ Len(payoffs) = Len(evalOrder) - 1
                    /\ EvalRaises(payoff, paths[Len(evalOrder)]))

C10_Witness ==
    /\ mcpc = "done" /\ mcOutcome = "EvaluationError" /\ payoff = ExprGuarded
    /\ evalOrder = <<1, 2>> /\ Len(payoffs) = 1 /\ mcResult = 0

C10_WitnessPriced ==
    /\ mcpc = "done" /\ mcOutcome = "price" /\ payoff = ExprGuarded
    /\ evalOrder = Upto(MaxPaths)

====
